---- MODULE Spec2Model ----
(***************************************************************************)
(* A model of public_drive_urls.py: DriveResource (share URL -> access     *)
(* URL, with hosting-type guessing) and DriveURLResolver (the redirect     *)
(* walk from an access URL to a resolved URL, NotPublic or NotFound).      *)
(*                                                                         *)
(* Strings are modelled as sequences of tokens (chunks of characters), so  *)
(* that str.format, the regular expressions and the substring test of      *)
(* is_accessible_location are computed rather than assumed.  A URL is a    *)
(* record [scheme, host, rest]: host is the sequence of chunks of the      *)
(* network location (<<>> when the URL has none) and rest the chunks after *)
(* it.                                                                     *)
(***************************************************************************)
EXTENDS Integers, Sequences, FiniteSets, TLC

VARIABLES
    \* ---- DriveURLResolver.resolve_from_access_url (one call at a time)
    pc,            \* "idle" | "constructing" (resolve_from_share_url builds its
                   \* resource) | "loop" (at the while test) | "done"
    url,           \* the local variable url
    redirection,   \* the local variable redirection
    outcome,       \* "none" | "returned" | the name of the exception raised
    result,        \* the URL returned (None until a URL is returned)
    givenUrl,      \* history: the argument of the call
    prevExhausted, \* history: the call before this one ended at the redirect limit
    nreq,          \* history: number of session.get calls answered in this call
    lastReq,       \* history: the last request issued [url, allow_redirects, stream]
    lastResp,      \* history: the last response received [status, location]
    lastLocation,  \* history: the Location of the most recent 302 of this call
    onlyRedirects, \* history: every response of this call was a 302 to a host other than the sign-in host
    exportFormat,  \* the export_format argument of resolve_from_share_url
    \* ---- DriveResource
    rpc,           \* "none" | "guessing" | "constructed" | "absent" | "raised"
    resId,         \* self.id
    resHostingType,\* self.hosting_type
    resSession,    \* self.session: "Session" | "SessionFn" (the function requests.session)
    keyOrder,      \* the order in which ACCESS_URLS.keys() enumerates in this process
    guessIdx,      \* position of guess_hosting_type's for loop in keyOrder
    probeLog,      \* history: the probes issued by the current construction
    rError,        \* the exception a DriveResource operation raised ("none" if none)
    ctorHostingType, \* history: the hosting_type argument of the construction
    shareUrl,      \* history: the argument of from_share_url (NoShareUrl without one)
    accessCall,    \* history: the arguments of the last get_access_url call
    accessResult,  \* what the last get_access_url call returned or raised
    \* ---- two resolvers whose resolve_from_access_url calls run concurrently
    calls,         \* per caller, the frame of its call: pc, the locals url and
                   \* redirection, the outcome, and the history of its requests
    sessions       \* per caller, self.session of its resolver: what a GET of
                   \* each URL on this session is answered with

walkVars == <<pc, url, redirection, outcome, result, givenUrl, prevExhausted,
              nreq, lastReq, lastResp, lastLocation, onlyRedirects, exportFormat>>
resVars == <<rpc, resId, resHostingType, resSession, keyOrder, guessIdx,
             probeLog, rError, ctorHostingType, shareUrl, accessCall, accessResult>>
concVars == <<calls, sessions>>
vars == <<walkVars, resVars, concVars>>

-----------------------------------------------------------------------------
(* Module-level data of public_drive_urls.py                                *)

LOGIN_REDIRECTION_HOST == "accounts.google.com"
DEFAULT_EXPORT_FORMAT == "pdf"
NATIVE_GOOGLE_DOC_TYPES == {"document", "presentation", "spreadsheets", "drawings"}
REDIRECT_LIMIT == 20
OPEN_HOSTING_TYPE == "open"

\* Python's None, as a hosting type / export format / session argument.
NoneStr == "None"

\* The placeholder {} of str.format.
Hole == "{}"

\* ACCESS_URLS: hosting type -> template.
ACCESS_URLS ==
    [ht \in {"file"} \cup NATIVE_GOOGLE_DOC_TYPES |->
        CASE ht = "file" ->
               [scheme |-> "https://", host |-> <<"drive.google.com">>,
                rest |-> <<"/uc?export=download&id=", Hole>>]
          [] ht = "document" ->
               [scheme |-> "https://", host |-> <<"docs.google.com">>,
                rest |-> <<"/document/d/", Hole, "/export?format=", Hole>>]
          [] ht = "presentation" ->
               [scheme |-> "https://", host |-> <<"docs.google.com">>,
                rest |-> <<"/presentation/d/", Hole, "/export/", Hole>>]
          [] ht = "spreadsheets" ->
               [scheme |-> "https://", host |-> <<"docs.google.com">>,
                rest |-> <<"/spreadsheets/d/", Hole, "/export?format=", Hole>>]
          [] OTHER ->
               [scheme |-> "https://", host |-> <<"docs.google.com">>,
                rest |-> <<"/drawings/d/", Hole, "/export/", Hole>>]]

\* The keys of ACCESS_URLS in the order the dict literal writes them.
AccessUrlKeys == <<"file", "document", "presentation", "spreadsheets", "drawings">>

HostingTypes == DOMAIN ACCESS_URLS

-----------------------------------------------------------------------------
(* Strings: str.format, urlsplit(...).hostname, str.lower, the `in` test    *)

\* template.format(*args) on the chunks of a string: the k-th {} is replaced
\* by the k-th argument (itself a sequence of chunks); arguments beyond the
\* last {} are ignored, as str.format ignores them.
RECURSIVE FormatChunks(_, _)
FormatChunks(chunks, args) ==
    IF chunks = <<>> THEN <<>>
    ELSE IF Head(chunks) = Hole
         THEN Head(args) \o FormatChunks(Tail(chunks), Tail(args))
         ELSE <<Head(chunks)>> \o FormatChunks(Tail(chunks), args)

Format(template, args) ==
    [template EXCEPT !.rest = FormatChunks(template.rest, args)]

\* str.lower on one chunk.
LowerChunk(c) ==
    CASE c = "ACCOUNTS.GOOGLE.COM" -> "accounts.google.com"
      [] c = "Example.COM" -> "example.com"
      [] OTHER -> c

Lower(s) == [i \in DOMAIN s |-> LowerChunk(s[i])]

\* The absent URL: headers.get('location') returning None, or no URL at all.
None == [scheme |-> "None", host |-> <<>>, rest |-> <<>>]

\* urlsplit(u).hostname is None when u has no network location.
HasHostname(u) == u.host # <<>>

\* urlsplit(u).hostname: the network location, lower-cased.
Hostname(u) == Lower(u.host)

\* needle in s, for a needle that is one chunk.
Contains(needle, s) == \E i \in DOMAIN s : s[i] = needle

-----------------------------------------------------------------------------
(* The inputs: ids, URLs and HTTP responses                                 *)

\* Drive ids, as sequences of chunks of [a-zA-Z0-9-_] characters.
Ids == {<<"12345">>, <<"abc", "-_">>}

ExampleUrl == [scheme |-> "http://", host |-> <<"example.com">>, rest |-> <<"/file">>]
LoginUrl ==
    [scheme |-> "https://", host |-> <<"accounts.google.com">>,
     rest |-> <<"/blah/blah/blah">>]
\* The sign-in host written in capitals.
LoginUpperUrl ==
    [scheme |-> "https://", host |-> <<"ACCOUNTS.GOOGLE.COM">>, rest |-> <<"/login">>]
\* A host that is not the sign-in host but has its name inside its own.
LookalikeUrl ==
    [scheme |-> "https://", host |-> <<"my", "accounts.google.com", ".evil.org">>,
     rest |-> <<"/file">>]
\* A relative reference: no scheme, no network location.
RelativeUrl == [scheme |-> "", host |-> <<>>, rest |-> <<"/relative">>]

\* The URLs a caller passes and a server names in a Location header.
WalkUrls ==
    {Format(ACCESS_URLS["file"], <<<<"12345">>>>), ExampleUrl, LoginUrl,
     LoginUpperUrl, LookalikeUrl, RelativeUrl}

\* Status codes of the responses: 200, 302 and three others.
Statuses == {200, 302, 301, 404, 500}

\* A response: its status code and headers.get('location') (None when the
\* header is absent).  The redirects 301 and 302 come with or without the
\* header; the code reads no header of the other responses, which are taken
\* without it.
Responses ==
    {[status |-> s, location |-> l] : s \in {301, 302}, l \in WalkUrls \cup {None}}
    \cup {[status |-> s, location |-> None] : s \in Statuses \ {301, 302}}

NoRequest == [url |-> None, allow_redirects |-> FALSE, stream |-> FALSE]
NoResponse == [status |-> 0, location |-> None]

\* u's hostname is the sign-in host itself.
IsLoginHost(u) == HasHostname(u) /\ Hostname(u) = <<LOGIN_REDIRECTION_HOST>>

-----------------------------------------------------------------------------
(* DriveURLResolver                                                         *)

\* Faulty variant: the 200 case does not look at the hostname.
IsAccessibleLocationUnchecked(u) == TRUE

\* is_accessible_location(url), for a url that has a hostname.
IsAccessibleLocation(u) == ~Contains(LOGIN_REDIRECTION_HOST, Lower(Hostname(u)))

\* Faulty variant: a missing location header is replaced by a default.
GetRedirectLocationDefaulting(resp) ==
    IF resp.location = None THEN ExampleUrl ELSE resp.location

\* get_redirect_location(response): the location header (None makes the
\* caller's step raise ResourceNotFoundException).
GetRedirectLocation(resp) == resp.location

\* The while test of resolve_from_access_url.
LoopCondition(r) == r <= REDIRECT_LIMIT

\* Faulty variant: every request goes to the URL the call was given.
WalkRequestGiven(u) == [url |-> givenUrl, allow_redirects |-> FALSE, stream |-> FALSE]

\* self.session.get(url, allow_redirects=False)
WalkRequest(u) == [url |-> u, allow_redirects |-> FALSE, stream |-> FALSE]

\* The call ends: a return (o = "returned", r the URL) or a raise.
Finish(o, r) ==
    /\ pc' = "done"
    /\ outcome' = o
    /\ result' = r
    /\ UNCHANGED <<url, redirection>>

\* response.status_code is requests.codes.ok
IsOkStatus(s) == s = 200

\* Faulty variant: a 301 is followed like a 302.
FollowEveryRedirect(s) == s \in {301, 302}

\* response.status_code == 302
IsRedirectStatus(s) == s = 302

\* Faulty variant: the URL the call was given is returned.
ResolvedGiven(u) == Finish("returned", givenUrl)

\* return url
Resolved(u) == Finish("returned", u)

\* Faulty variant: the hop is counted but url is not updated.
FollowKeepsUrl(resp) ==
    /\ url' = url
    /\ redirection' = redirection + 1
    /\ UNCHANGED <<pc, outcome, result>>

\* url = self.get_redirect_location(response); redirection += 1
Follow(resp) ==
    /\ url' = GetRedirectLocation(resp)
    /\ redirection' = redirection + 1
    /\ UNCHANGED <<pc, outcome, result>>

\* What the loop body does with the response to GET u.  The hostname of a
\* URL without network location is None, and None.lower() raises
\* AttributeError.
Classify(u, resp) ==
    IF IsOkStatus(resp.status)
    THEN IF ~HasHostname(u) THEN Finish("AttributeError", None)
         ELSE IF IsAccessibleLocation(u) THEN Resolved(u)
         ELSE Finish("NotPublicResourceException", None)
    ELSE IF IsRedirectStatus(resp.status)
    THEN IF GetRedirectLocation(resp) = None
         THEN Finish("ResourceNotFoundException", None)
         ELSE Follow(resp)
    ELSE Finish("ResourceNotFoundException", None)

\* The call that is over ended with the raise after the while loop.
EndedAtLimit ==
    outcome = "ResourceNotFoundException" /\ ~LoopCondition(redirection)

\* Faulty variant: the hop counter of the call before is kept.
StartWalkKeepsCount(u) ==
    /\ pc' = "loop"
    /\ url' = u
    /\ redirection' = redirection
    /\ outcome' = "none"
    /\ result' = None
    /\ givenUrl' = u
    /\ prevExhausted' = EndedAtLimit
    /\ nreq' = 0
    /\ lastReq' = NoRequest
    /\ lastResp' = NoResponse
    /\ lastLocation' = None
    /\ onlyRedirects' = TRUE

\* The first statements of resolve_from_access_url(u).
StartWalk(u) ==
    /\ pc' = "loop"
    /\ url' = u
    /\ redirection' = 0
    /\ outcome' = "none"
    /\ result' = None
    /\ givenUrl' = u
    /\ prevExhausted' = EndedAtLimit
    /\ nreq' = 0
    /\ lastReq' = NoRequest
    /\ lastResp' = NoResponse
    /\ lastLocation' = None
    /\ onlyRedirects' = TRUE

\* A caller calls resolve_from_access_url(u) on a resolver that runs no call.
ResolveFromAccessUrl(u) ==
    /\ pc \in {"idle", "done"}
    /\ StartWalk(u)
    /\ UNCHANGED <<exportFormat, resVars, concVars>>

\* One pass of the while loop: the request, its response, the classification.
LoopRequest(resp) ==
    /\ pc = "loop"
    /\ LoopCondition(redirection)
    /\ nreq' = nreq + 1
    /\ lastReq' = WalkRequest(url)
    /\ lastResp' = resp
    /\ lastLocation' = IF resp.status = 302 THEN resp.location ELSE lastLocation
    /\ onlyRedirects' = (/\ onlyRedirects
                         /\ resp.status = 302
                         /\ HasHostname(resp.location)
                         /\ ~IsLoginHost(resp.location))
    /\ Classify(url, resp)
    /\ UNCHANGED <<givenUrl, prevExhausted, exportFormat, resVars, concVars>>

\* session.get on a URL without scheme and host: the requests library raises
\* MissingSchema before anything is sent (a mocked session answers instead,
\* which is LoopRequest).
TransportRejects ==
    /\ pc = "loop"
    /\ LoopCondition(redirection)
    /\ ~HasHostname(url)
    /\ Finish("MissingSchema", None)
    /\ UNCHANGED <<givenUrl, prevExhausted, nreq, lastReq, lastResp, lastLocation, onlyRedirects,
                   exportFormat, resVars, concVars>>

\* The while test fails: the raise after the loop.
LoopExhausted ==
    /\ pc = "loop"
    /\ ~LoopCondition(redirection)
    /\ Finish("ResourceNotFoundException", None)
    /\ UNCHANGED <<givenUrl, prevExhausted, nreq, lastReq, lastResp, lastLocation, onlyRedirects,
                   exportFormat, resVars, concVars>>

WalkStep ==
    \/ \E resp \in Responses : LoopRequest(resp)
    \/ TransportRejects
    \/ LoopExhausted

-----------------------------------------------------------------------------
(* DriveResource                                                            *)

\* The hosting_type and export_format arguments of a get_access_url call.
HostingTypeArgs == {NoneStr, OPEN_HOSTING_TYPE, "file", "spreadsheets"}
ExportFormats == {NoneStr, "", "pdf", "png"}

\* No get_access_url call made yet.
NoAccessCall == [hosting_type |-> NoneStr, export_format |-> NoneStr]
NoAccessResult == [kind |-> "none", url |-> None]

\* Python's truth value of a string or None.
Truthy(x) == x \notin {NoneStr, ""}

\* a or b
Or(a, b) == IF Truthy(a) THEN a ELSE b

\* Faulty variant: no default export format.
ExportFormatAsGiven(f) == f

\* export_format or DEFAULT_EXPORT_FORMAT
ExportFormatOrDefault(f) == Or(f, DEFAULT_EXPORT_FORMAT)

\* Faulty variant: the argument comes before the resource's own type.
ArgumentOrSelfHostingType(selfHt, htArg) == Or(htArg, selfHt)

\* self.hosting_type or hosting_type
SelfOrArgumentHostingType(selfHt, htArg) == Or(selfHt, htArg)

\* get_access_url(hosting_type=htArg, export_format=fmtArg) on a resource
\* whose fields are selfHt and id: the URL, or the KeyError of
\* ACCESS_URLS[hosting_type].
GetAccessUrl(selfHt, id, htArg, fmtArg) ==
    LET hosting_type == SelfOrArgumentHostingType(selfHt, htArg)
        export_format == ExportFormatOrDefault(fmtArg)
    IN  IF hosting_type \in NATIVE_GOOGLE_DOC_TYPES
        THEN [kind |-> "url",
              url |-> Format(ACCESS_URLS[hosting_type], <<id, <<export_format>>>>)]
        ELSE IF hosting_type \in DOMAIN ACCESS_URLS
        THEN [kind |-> "url", url |-> Format(ACCESS_URLS[hosting_type], <<id>>)]
        ELSE [kind |-> "KeyError", url |-> None]

\* Faulty variant: the character class of the id lacks - and _.
IdChunksNoHyphen ==
    {"12345", "abc", "docs", "drive", "mail", "open", "folder", "x", "file",
     "document", "presentation", "spreadsheets", "drawings"}

\* Chunks made of the characters [a-zA-Z0-9\-_] only.
IdChunks ==
    {"12345", "abc", "-_", "docs", "drive", "mail", "open", "folder", "x"}
    \cup HostingTypes

\* Chunks made of the characters [a-zA-Z0-9\-.] only.
DomainChunks == (IdChunks \ {"-_"}) \cup {"example.com"}

\* The chunk at position i of s ("" beyond its end).
At(s, i) == IF i \in DOMAIN s THEN s[i] ELSE ""

\* The position after the longest run of chunks of cls that starts at s[i].
RECURSIVE RunEnd(_, _, _)
RunEnd(s, i, cls) ==
    IF i \in DOMAIN s /\ s[i] \in cls THEN RunEnd(s, i + 1, cls) ELSE i

NoMatch == [matched |-> FALSE, group1 |-> "", group2 |-> <<>>]

\* Faulty variant: the scheme http is accepted as well.
MatchesPrefixAnyScheme(s) ==
    /\ At(s, 1) \in {"https://", "http://"}
    /\ At(s, 2) \in {"docs", "drive"}
    /\ At(s, 3) = ".google.com/"

\* "https://(?:docs|drive)\.google\.com/", the start of both patterns.
MatchesPrefix(s) ==
    /\ At(s, 1) = "https://"
    /\ At(s, 2) \in {"docs", "drive"}
    /\ At(s, 3) = ".google.com/"

\* SHARE_URL_REGEXES[0].match(s): the prefix, an optional "a/<domain>/", the
\* hosting type, "/d/", the id (the longest run of id characters), "/", and
\* anything.
MatchExplicit(s) ==
    LET d == RunEnd(s, 5, DomainChunks)
        k == IF At(s, 4) = "a/" /\ d > 5 /\ At(s, d) = "/" THEN d + 1 ELSE 4
        e == RunEnd(s, k + 2, IdChunks)
    IN  IF /\ MatchesPrefix(s)
           /\ At(s, k) \in HostingTypes
           /\ At(s, k + 1) = "/d/"
           /\ e > k + 2
           /\ At(s, e) = "/"
        THEN [matched |-> TRUE, group1 |-> At(s, k),
              group2 |-> SubSeq(s, k + 2, e - 1)]
        ELSE NoMatch

\* SHARE_URL_REGEXES[1].match(s): the prefix, "open", "?id=" and the id;
\* what follows the id is not looked at.
MatchOpen(s) ==
    LET e == RunEnd(s, 6, IdChunks)
    IN  IF /\ MatchesPrefix(s)
           /\ At(s, 4) = OPEN_HOSTING_TYPE
           /\ At(s, 5) = "?id="
           /\ e > 6
        THEN [matched |-> TRUE, group1 |-> OPEN_HOSTING_TYPE,
              group2 |-> SubSeq(s, 6, e - 1)]
        ELSE NoMatch

\* The for loop of from_share_url: the first pattern that matches gives the
\* id (group 2) and the hosting type (group 1); no match gives None.
ParseShareUrl(s) ==
    IF MatchExplicit(s).matched THEN MatchExplicit(s) ELSE MatchOpen(s)

\* session or requests.Session()
SessionOrNew(sess) == IF sess = NoneStr THEN "Session" ELSE sess

\* Faulty variant: __init__ stores the hosting type as given, also 'open'.
NeedsGuessNever(ht) == FALSE

\* hosting_type != OPEN_HOSTING_TYPE is false: __init__ guesses.
NeedsGuess(ht) == ht = OPEN_HOSTING_TYPE

\* Faulty variant: the keys are gone through from the last to the first.
AccessUrlsKeysReversed == [i \in DOMAIN keyOrder |-> keyOrder[Len(keyOrder) + 1 - i]]

\* ACCESS_URLS.keys(), in this process's enumeration order.
AccessUrlsKeys == keyOrder

\* response.ok of the requests library: no 4xx and no 5xx status.
Ok(status) == ~(400 <= status /\ status < 600)

\* The final status codes a probe is answered with.
ProbeStatuses == {200, 304, 404}

\* DriveResource.__init__(id, ht, session=sess) up to its first HTTP
\* request: the whole constructor when ht is not 'open'.
Construct(id, ht, sess) ==
    /\ resId' = id
    /\ resSession' = SessionOrNew(sess)
    /\ ctorHostingType' = ht
    /\ probeLog' = <<>>
    /\ rError' = "none"
    /\ accessCall' = NoAccessCall
    /\ accessResult' = NoAccessResult
    /\ IF NeedsGuess(ht)
       THEN rpc' = "guessing" /\ resHostingType' = NoneStr /\ guessIdx' = 1
       ELSE rpc' = "constructed" /\ resHostingType' = ht /\ guessIdx' = 0

\* The share URL of a resource that was not built from one.
NoShareUrl == <<"-">>

\* No resource has been constructed yet: a behaviour follows one DriveResource
\* object from its construction on.
ResourceIdle == rpc = "none"

\* A caller evaluates DriveResource(id, ht, session=sess).
NewResource(id, ht, sess) ==
    /\ ResourceIdle
    /\ Construct(id, ht, sess)
    /\ shareUrl' = NoShareUrl
    /\ UNCHANGED <<keyOrder, concVars, walkVars>>

\* from_share_url(s, session=sess) up to its first HTTP request: the
\* construction from the first match, or None (rpc "absent") without a match.
\* Without the session argument sess is the default, which is the function
\* requests.session that the module imports.
FromShareUrlCall(s, sess) ==
    LET m == ParseShareUrl(s)
    IN  /\ shareUrl' = s
        /\ IF m.matched
           THEN Construct(m.group2, m.group1, sess)
           ELSE
             /\ rpc' = "absent"
             /\ resId' = <<>>
             /\ resHostingType' = NoneStr
             /\ resSession' = "Session"
             /\ ctorHostingType' = NoneStr
             /\ guessIdx' = 0
             /\ probeLog' = <<>>
             /\ rError' = "none"
             /\ accessCall' = NoAccessCall
             /\ accessResult' = NoAccessResult

\* A caller evaluates DriveResource.from_share_url(s, session=sess).
FromShareUrl(s, sess) ==
    /\ ResourceIdle
    /\ FromShareUrlCall(s, sess)
    /\ UNCHANGED <<keyOrder, concVars, walkVars>>

\* self.session.get(url, stream=True): allow_redirects is not passed, and the
\* requests library follows redirects on a GET by default.
ProbeRequest(u) == [url |-> u, allow_redirects |-> TRUE, stream |-> TRUE]

\* One pass of guess_hosting_type's for loop: the probe of the next hosting
\* type (a streaming GET, redirects followed by the library) and the test of
\* response.ok; a success ends the loop and __init__ stores the type.
GuessProbe(status) ==
    /\ rpc = "guessing"
    /\ resSession = "Session"
    /\ guessIdx \in DOMAIN AccessUrlsKeys
    /\ LET ht == AccessUrlsKeys[guessIdx]
           req == ProbeRequest(GetAccessUrl(resHostingType, resId, ht, NoneStr).url)
       IN  /\ probeLog' = Append(probeLog,
                  [hosting_type |-> ht, url |-> req.url,
                   allow_redirects |-> req.allow_redirects, stream |-> req.stream,
                   status |-> status])
           /\ IF Ok(status)
              THEN rpc' = "constructed" /\ resHostingType' = ht
                   /\ UNCHANGED guessIdx
              ELSE guessIdx' = guessIdx + 1 /\ UNCHANGED <<rpc, resHostingType>>
    /\ UNCHANGED <<resId, resSession, keyOrder, concVars, rError, ctorHostingType, shareUrl,
                   accessCall, accessResult, walkVars>>

\* self.session.get when self.session is the function requests.session: it
\* has no attribute get, and the AttributeError leaves __init__.
GuessRaises ==
    /\ rpc = "guessing"
    /\ resSession = "SessionFn"
    /\ guessIdx \in DOMAIN AccessUrlsKeys
    /\ rpc' = "raised"
    /\ rError' = "AttributeError"
    /\ UNCHANGED <<resId, resHostingType, resSession, keyOrder, concVars, guessIdx, probeLog,
                   ctorHostingType, shareUrl, accessCall, accessResult, walkVars>>

\* Faulty variant: a failed guess returns the sentinel 'open'.
GuessFailsReturnsOpen ==
    /\ rpc = "guessing"
    /\ guessIdx \notin DOMAIN AccessUrlsKeys
    /\ rpc' = "constructed"
    /\ resHostingType' = OPEN_HOSTING_TYPE
    /\ UNCHANGED <<resId, resSession, keyOrder, concVars, guessIdx, probeLog, rError,
                   ctorHostingType, shareUrl, accessCall, accessResult, walkVars>>

\* Faulty variant: a failed guess falls back to 'file'.
GuessFailsDefaultsToFile ==
    /\ rpc = "guessing"
    /\ guessIdx \notin DOMAIN AccessUrlsKeys
    /\ rpc' = "constructed"
    /\ resHostingType' = "file"
    /\ UNCHANGED <<resId, resSession, keyOrder, concVars, guessIdx, probeLog, rError,
                   ctorHostingType, shareUrl, accessCall, accessResult, walkVars>>

\* The else of the for loop: every hosting type was probed, none answered ok;
\* guess_hosting_type returns None and __init__ stores it.
GuessFails ==
    /\ rpc = "guessing"
    /\ guessIdx \notin DOMAIN AccessUrlsKeys
    /\ rpc' = "constructed"
    /\ resHostingType' = NoneStr
    /\ UNCHANGED <<resId, resSession, keyOrder, concVars, guessIdx, probeLog, rError,
                   ctorHostingType, shareUrl, accessCall, accessResult, walkVars>>

\* Faulty variant: get_access_url stores the hosting type it used.
CallGetAccessUrlStoring(htArg, fmtArg) ==
    /\ rpc = "constructed"
    /\ accessCall' = [hosting_type |-> htArg, export_format |-> fmtArg]
    /\ accessResult' = GetAccessUrl(resHostingType, resId, htArg, fmtArg)
    /\ resHostingType' = Or(resHostingType, htArg)
    /\ UNCHANGED <<rpc, resId, resSession, keyOrder, concVars, guessIdx,
                   probeLog, rError, ctorHostingType, shareUrl, walkVars>>

\* A caller calls get_access_url(hosting_type=htArg, export_format=fmtArg)
\* on the constructed resource.
CallGetAccessUrl(htArg, fmtArg) ==
    /\ rpc = "constructed"
    /\ accessCall' = [hosting_type |-> htArg, export_format |-> fmtArg]
    /\ accessResult' = GetAccessUrl(resHostingType, resId, htArg, fmtArg)
    /\ UNCHANGED <<rpc, resId, resHostingType, resSession, keyOrder, concVars, guessIdx,
                   probeLog, rError, ctorHostingType, shareUrl, walkVars>>

-----------------------------------------------------------------------------
(* DriveURLResolver.resolve_from_share_url                                  *)

\* The call ends before resolve_from_access_url is entered.
EndBeforeWalk(o) ==
    /\ pc' = "done"
    /\ outcome' = o
    /\ result' = None
    /\ url' = None
    /\ redirection' = 0
    /\ givenUrl' = None
    /\ prevExhausted' = EndedAtLimit
    /\ nreq' = 0
    /\ lastReq' = NoRequest
    /\ lastResp' = NoResponse
    /\ lastLocation' = None
    /\ onlyRedirects' = TRUE

\* A caller calls resolve_from_share_url(s, export_format=fmt): the first
\* line, DriveResource.from_share_url(s), which passes no session.
ResolveFromShareUrl(s, fmt) ==
    /\ pc \in {"idle", "done"}
    /\ pc' = "constructing"
    /\ exportFormat' = fmt
    /\ FromShareUrlCall(s, "SessionFn")
    /\ UNCHANGED <<url, redirection, outcome, result, givenUrl, prevExhausted,
                   nreq, lastReq, lastResp, lastLocation, onlyRedirects, keyOrder, concVars>>

\* from_share_url is over.  An exception of the construction leaves the
\* call; None has no get_access_url, an AttributeError; otherwise
\* get_access_url(export_format=...) gives the URL that
\* resolve_from_access_url is entered with.
ShareContinue ==
    /\ pc = "constructing"
    /\ rpc \in {"constructed", "absent", "raised"}
    /\ IF rpc = "raised"
       THEN EndBeforeWalk(rError) /\ UNCHANGED <<accessCall, accessResult>>
       ELSE IF rpc = "absent"
       THEN EndBeforeWalk("AttributeError") /\ UNCHANGED <<accessCall, accessResult>>
       ELSE LET a == GetAccessUrl(resHostingType, resId, NoneStr, exportFormat)
            IN  /\ accessCall' = [hosting_type |-> NoneStr,
                                  export_format |-> exportFormat]
                /\ accessResult' = a
                /\ IF a.kind = "url" THEN StartWalk(a.url) ELSE EndBeforeWalk(a.kind)
    /\ UNCHANGED <<exportFormat, rpc, resId, resHostingType, resSession, keyOrder, concVars,
                   guessIdx, probeLog, rError, ctorHostingType, shareUrl>>

-----------------------------------------------------------------------------
(* Two resolvers, each with a session of its own, whose                     *)
(* resolve_from_access_url calls run concurrently; a step is one pass of    *)
(* one call's while loop, a single request                                  *)

\* The two threads, each with a DriveURLResolver of its own.
Callers == {1, 2}

\* The URLs the concurrent calls are given and are redirected to.
ConcUrls == {ExampleUrl, LoginUrl}

\* The responses of the sessions.
ConcResponses ==
    {[status |-> 200, location |-> None], [status |-> 404, location |-> None]}
    \cup {[status |-> 302, location |-> l] : l \in ConcUrls \cup {None}}

\* A session, seen from the call: the response to a GET of each URL.
ConcSessions == [ConcUrls -> ConcResponses]

\* A frame of resolve_from_access_url that was not entered.
IdleFrame ==
    [pc |-> "idle", url |-> None, redirection |-> 0, outcome |-> "none",
     result |-> None, given |-> None, reqs |-> <<>>, overlapped |-> FALSE]

\* The frame on entry: the parameter url, redirection = 0.
StartFrame(u) == [IdleFrame EXCEPT !.pc = "loop", !.url = u, !.given = u]

\* The frame after a return or a raise.
FinishFrame(f, o, r) == [f EXCEPT !.pc = "done", !.outcome = o, !.result = r]

\* The loop body on frame f, given the response to GET f.url.
ClassifyFrame(f, resp) ==
    IF IsOkStatus(resp.status)
    THEN IF ~HasHostname(f.url) THEN FinishFrame(f, "AttributeError", None)
         ELSE IF IsAccessibleLocation(f.url) THEN FinishFrame(f, "returned", f.url)
         ELSE FinishFrame(f, "NotPublicResourceException", None)
    ELSE IF IsRedirectStatus(resp.status)
    THEN IF GetRedirectLocation(resp) = None
         THEN FinishFrame(f, "ResourceNotFoundException", None)
         ELSE [f EXCEPT !.url = GetRedirectLocation(resp), !.redirection = @ + 1]
    ELSE FinishFrame(f, "ResourceNotFoundException", None)

\* One pass of the while statement on frame f with the session sess: the
\* test, the request, the body; or the raise after the loop.
PassFrame(f, sess) ==
    IF LoopCondition(f.redirection)
    THEN ClassifyFrame([f EXCEPT !.reqs = Append(@, WalkRequest(f.url))], sess[f.url])
    ELSE FinishFrame(f, "ResourceNotFoundException", None)

\* The call of frame f run to its end with nothing else running.
RECURSIVE RunAlone(_, _)
RunAlone(f, sess) ==
    IF f.pc = "done" THEN f ELSE RunAlone(PassFrame(f, sess), sess)

\* Faulty variant: url and redirection are kept in one place for all callers.
SharedFrame(c) == calls[1]

\* The frame of caller c's call: the locals of a call belong to the call.
CallerFrame(c) == calls[c]

\* Another caller's call is between two of its requests.
OtherRunning(c) ==
    \E d \in Callers \ {c} : calls[d].pc = "loop" /\ calls[d].reqs # <<>>

\* Caller c calls resolve_from_access_url(u) on its resolver.
ConcurrentCall(c, u) ==
    /\ CallerFrame(c).pc = "idle"
    /\ calls' = [calls EXCEPT ![c] = StartFrame(u)]
    /\ UNCHANGED <<sessions, walkVars, resVars>>

\* Caller c's call makes one pass of its while statement.
ConcurrentPass(c) ==
    LET f == CallerFrame(c)
    IN  /\ f.pc = "loop"
        /\ calls' = [calls EXCEPT ![c] =
                         [PassFrame(f, sessions[c]) EXCEPT
                              !.overlapped = f.overlapped \/ OtherRunning(c)]]
        /\ UNCHANGED <<sessions, walkVars, resVars>>

-----------------------------------------------------------------------------
(* Initial states and specifications                                        *)

\* No concurrent calls.
InitSequential ==
    /\ calls = [c \in Callers |-> IdleFrame]
    /\ sessions = [c \in Callers |-> [u \in ConcUrls |-> NoResponse]]


InitWalk ==
    /\ pc = "idle"
    /\ url = None
    /\ redirection = 0
    /\ outcome = "none"
    /\ result = None
    /\ givenUrl = None
    /\ prevExhausted = FALSE
    /\ nreq = 0
    /\ lastReq = NoRequest
    /\ lastResp = NoResponse
    /\ lastLocation = None
    /\ onlyRedirects = TRUE
    /\ exportFormat = NoneStr

InitResource ==
    /\ rpc = "none"
    /\ resId = <<>>
    /\ resHostingType = NoneStr
    /\ resSession = "Session"
    /\ guessIdx = 0
    /\ probeLog = <<>>
    /\ rError = "none"
    /\ ctorHostingType = NoneStr
    /\ shareUrl = NoShareUrl
    /\ accessCall = NoAccessCall
    /\ accessResult = NoAccessResult

\* A resolver on which callers call resolve_from_access_url, one call after
\* the other.
InitResolve == InitWalk /\ InitResource /\ keyOrder = AccessUrlKeys /\ InitSequential

NextResolve ==
    \/ \E u \in WalkUrls : ResolveFromAccessUrl(u)
    \/ WalkStep

SpecResolve == InitResolve /\ [][NextResolve]_vars

-----------------------------------------------------------------------------
(* Properties of resolve_from_access_url, checked under SpecResolve         *)

NotPublic == "NotPublicResourceException"
NotFound == "ResourceNotFoundException"

\* C1: a call that returns a URL returns the URL of the request that was
\* answered 200: the given URL when that was the first request, and otherwise
\* the Location of the last 302.
C1_ReturnsRequestedUrl ==
    outcome = "returned" =>
        /\ lastResp.status = 200
        /\ result = lastReq.url
        /\ (nreq = 1 => result = givenUrl)
        /\ (nreq > 1 => result = lastLocation)

\* A URL was returned after at least two redirects, and it is not the given one.
C1_Witness == outcome = "returned" /\ nreq >= 3 /\ result # givenUrl

\* C2: no returned URL has the sign-in host as its hostname, and a 200 for a
\* URL on that host, first or after redirects, ends the call in NotPublic.
C2_NeverReturnsLogin ==
    /\ outcome = "returned" => ~IsLoginHost(result)
    /\ (lastResp.status = 200 /\ IsLoginHost(lastReq.url)) =>
           (pc = "done" /\ outcome = NotPublic)

\* A 200 from the sign-in host (written in capitals) after a redirect.
C2_Witness ==
    /\ outcome = NotPublic
    /\ nreq >= 2
    /\ lastResp.status = 200
    /\ lastReq.url = LoginUpperUrl

\* C3, as the claim states it: a 302 whose Location is on the sign-in host
\* ends the call in NotPublic with that response.
C3_LoginRedirectEndsCall ==
    (lastResp.status = 302 /\ IsLoginHost(lastResp.location)) =>
        (pc = "done" /\ outcome = NotPublic)

\* C3, amended: after a 302 whose Location is on the sign-in host the call
\* goes on.  Unless that 302 was the 21st response (then the call raises
\* NotFound without another request), the next request goes to that Location
\* with redirects disabled, and its answer decides: 200 gives NotPublic, a
\* status other than 200 and 302 gives NotFound, and no URL is returned.
C3_LoginRedirectIsFollowed ==
    [][(pc = "loop" /\ lastResp.status = 302 /\ IsLoginHost(lastResp.location)) =>
          IF nreq <= 20
          THEN /\ nreq' = nreq + 1
               /\ lastReq' = [url |-> lastResp.location, allow_redirects |-> FALSE,
                              stream |-> FALSE]
               /\ outcome' # "returned"
               /\ (lastResp'.status = 200 => outcome' = NotPublic)
               /\ (lastResp'.status \notin {200, 302} => outcome' = NotFound)
               /\ (lastResp'.status = 302 /\ lastResp'.location # None =>
                       pc' = "loop" /\ url' = lastResp'.location)
          ELSE nreq' = nreq /\ outcome' = NotFound]_vars

\* The sign-in URL a 302 named was requested and answered 404: NotFound.
C3_Witness ==
    /\ outcome = NotFound
    /\ nreq >= 2
    /\ IsLoginHost(lastReq.url)
    /\ lastReq.url = lastLocation
    /\ lastResp.status = 404

\* C4: against a server that answers every request with a 302 to a host
\* other than the sign-in host, the call ends in NotFound after exactly
\* REDIRECT_LIMIT requests.
C4_FailsAfterLimitRequests ==
    (pc = "done" /\ onlyRedirects /\ nreq >= 1) =>
        (outcome = NotFound /\ nreq = REDIRECT_LIMIT)

\* C5: a 302 without Location ends the call in NotFound at whatever hop, and
\* no request follows it in that call.
C5_RedirectToNowhere ==
    /\ []((lastResp.status = 302 /\ lastResp.location = None) =>
            (pc = "done" /\ outcome = NotFound))
    /\ [][(lastResp.status = 302 /\ lastResp.location = None) =>
            (lastReq' = lastReq \/ (nreq' = 0 /\ lastReq' = NoRequest))]_vars

\* A 302 without Location after two redirects that were followed.
C5_Witness ==
    /\ outcome = NotFound
    /\ nreq >= 3
    /\ lastResp.status = 302
    /\ lastResp.location = None

\* C6: a response whose status is neither 200 nor 302 ends the call in
\* NotFound: it is the last response of the call, its URL is not requested
\* again, and the outcome is neither NotPublic nor a returned URL.
C6_BadStatusEndsCall ==
    /\ [](lastResp.status \notin {0, 200, 302} =>
            (pc = "done" /\ outcome = NotFound /\ result = None))
    /\ [][lastResp.status \notin {0, 200, 302} =>
            (lastReq' = lastReq \/ (nreq' = 0 /\ lastReq' = NoRequest))]_vars

\* A 301 that names a Location, received after a followed redirect.
C6_Witness ==
    /\ outcome = NotFound
    /\ nreq >= 2
    /\ lastResp.status = 301
    /\ lastResp.location # None

-----------------------------------------------------------------------------
(* DriveResource on its own: constructions, parses and get_access_url calls *)

\* The hosting_type arguments of a construction.
CtorHostingTypes == HostingTypes \cup {OPEN_HOSTING_TYPE}

\* Share URLs, as sequences of chunks.
ShareUrls ==
    { <<"https://", "drive", ".google.com/", "file", "/d/", "12345", "/",
        "view?usp=sharing">>,
      <<"https://", "docs", ".google.com/", "a/", "example.com", "/", "document",
        "/d/", "abc", "-_", "/", "edit">>,
      <<"https://", "docs", ".google.com/", "presentation", "/d/", "12345", "/",
        "edit">>,
      <<"https://", "docs", ".google.com/", "spreadsheets", "/d/", "abc", "-_", "/">>,
      <<"https://", "docs", ".google.com/", "drawings", "/d/", "12345", "/", "edit">>,
      <<"https://", "docs", ".google.com/", "open", "?id=", "12345">>,
      <<"https://", "drive", ".google.com/", "open", "?id=", "abc", "-_", "&",
        "usp=sharing">>,
      <<"https://", "drive", ".google.com/", "open", "?id=", "abc", "!", "12345">>,
      <<"http://", "drive", ".google.com/", "file", "/d/", "12345", "/">>,
      <<"https://", "drive", ".google.com/", "file", "/d/", "12345">>,
      <<"https://", "drive", ".google.com/", "folder", "/d/", "12345", "/">>,
      <<"https://", "mail", ".google.com/", "file", "/d/", "12345", "/">>,
      <<"https://", "docs", ".google.com/", "spreadsheets", "/d/", "abc", "!", "x",
        "/", "edit">>,
      <<"https://", "docs", ".google.com/", "open", "?id=">>,
      <<>> }

\* The orders a dict of the five keys can enumerate in: insertion order on
\* the interpreters that keep it, any other order on those that do not.
KeyOrders ==
    {o \in [DOMAIN AccessUrlKeys -> HostingTypes] :
        \A i, j \in DOMAIN AccessUrlKeys : i # j => o[i] # o[j]}

InitResourceSpec ==
    InitWalk /\ InitResource /\ keyOrder \in KeyOrders /\ InitSequential

NextResource ==
    \/ \E id \in Ids, ht \in CtorHostingTypes, sess \in {NoneStr, "Session"} :
           NewResource(id, ht, sess)
    \/ \E s \in ShareUrls, sess \in {"Session", "SessionFn"} : FromShareUrl(s, sess)
    \/ \E status \in ProbeStatuses : GuessProbe(status)
    \/ GuessRaises
    \/ GuessFails
    \/ \E htArg \in HostingTypeArgs, fmtArg \in ExportFormats :
           CallGetAccessUrl(htArg, fmtArg)

SpecResource == InitResourceSpec /\ [][NextResource]_vars

-----------------------------------------------------------------------------
(* A resolver on which callers call resolve_from_share_url                  *)

\* The export_format arguments of resolve_from_share_url calls.
ShareExportFormats == {NoneStr, "png"}

NextShare ==
    \/ \E s \in ShareUrls, fmt \in ShareExportFormats : ResolveFromShareUrl(s, fmt)
    \/ GuessRaises
    \/ ShareContinue
    \/ WalkStep

SpecShare == InitResolve /\ [][NextShare]_vars

\* C7: every resolve_from_share_url call ends in one of three outcomes: a
\* returned URL, NotPublicResourceException or ResourceNotFoundException.
C7_ThreeOutcomes == pc = "done" => outcome \in {"returned", NotPublic, NotFound}

-----------------------------------------------------------------------------
(* Properties of DriveResource, checked under SpecResource                  *)

\* C8, as the claim states it: the probes go through file, document,
\* presentation, spreadsheets, drawings in this order, none follows a
\* success, and the type of the successful probe is adopted.
C8_ProbesInWrittenOrder ==
    /\ \A i \in DOMAIN probeLog :
           /\ probeLog[i].hosting_type = AccessUrlKeys[i]
           /\ (i < Len(probeLog) => probeLog[i].status >= 400)
    /\ (rpc = "constructed" /\ probeLog # <<>> /\ probeLog[Len(probeLog)].status < 400)
           => resHostingType = probeLog[Len(probeLog)].hosting_type

\* C8, amended: the probes go one at a time through the hosting types in the
\* order ACCESS_URLS.keys() enumerates them in the running interpreter (the
\* written order where dicts keep insertion order); the next probe is issued
\* only after the previous one failed, none follows a success, and the type
\* of the successful probe, the earliest in that order, is adopted.
C8_ProbesInEnumerationOrder ==
    /\ \A i \in DOMAIN probeLog :
           /\ probeLog[i].hosting_type = keyOrder[i]
           /\ (i < Len(probeLog) => probeLog[i].status >= 400)
    /\ (rpc = "guessing" /\ resSession = "Session") =>
           /\ guessIdx = Len(probeLog) + 1
           /\ \A i \in DOMAIN probeLog : probeLog[i].status >= 400
    /\ (rpc = "constructed" /\ probeLog # <<>> /\ probeLog[Len(probeLog)].status < 400)
           => resHostingType = probeLog[Len(probeLog)].hosting_type

\* The third probe succeeded and its type, file, was adopted: two types were
\* probed before the one the dict literal writes first.
C8_Witness ==
    /\ rpc = "constructed"
    /\ Len(probeLog) = 3
    /\ probeLog[3].status = 200
    /\ probeLog[3].hosting_type = "file"
    /\ resHostingType = "file"

\* C9: a resource constructed with hosting_type 'open' (directly or from a
\* legacy share URL) does not have hosting_type 'open' once constructed; when
\* a probe succeeded, hosting_type is the probed type and get_access_url() is
\* that type's template filled with the id and the default export format.
C9_NeverOpenOnceConstructed ==
    (rpc = "constructed" /\ ctorHostingType = OPEN_HOSTING_TYPE) =>
        /\ resHostingType # OPEN_HOSTING_TYPE
        /\ \A i \in DOMAIN probeLog :
               probeLog[i].status < 400 =>
                   /\ resHostingType = probeLog[i].hosting_type
                   /\ GetAccessUrl(resHostingType, resId, NoneStr, NoneStr) =
                          [kind |-> "url",
                           url |-> Format(ACCESS_URLS[probeLog[i].hosting_type],
                                          <<resId, <<"pdf">>>>)]

\* The scenario of the legacy share URL: the document probe fails, the
\* spreadsheets probe succeeds.
C9_Witness ==
    /\ rpc = "constructed"
    /\ ctorHostingType = OPEN_HOSTING_TYPE
    /\ resId = <<"abc">>
    /\ Len(probeLog) = 2
    /\ probeLog[1].hosting_type = "document"
    /\ probeLog[1].status = 404
    /\ probeLog[2].hosting_type = "spreadsheets"
    /\ probeLog[2].status = 200
    /\ resHostingType = "spreadsheets"

\* The access URL of a hosting type, written out.
C10_Expected(ht, id, fmt) ==
    CASE ht = "file" ->
           [scheme |-> "https://", host |-> <<"drive.google.com">>,
            rest |-> <<"/uc?export=download&id=">> \o id]
      [] ht = "document" ->
           [scheme |-> "https://", host |-> <<"docs.google.com">>,
            rest |-> <<"/document/d/">> \o id \o <<"/export?format=", fmt>>]
      [] ht = "presentation" ->
           [scheme |-> "https://", host |-> <<"docs.google.com">>,
            rest |-> <<"/presentation/d/">> \o id \o <<"/export/", fmt>>]
      [] ht = "spreadsheets" ->
           [scheme |-> "https://", host |-> <<"docs.google.com">>,
            rest |-> <<"/spreadsheets/d/">> \o id \o <<"/export?format=", fmt>>]
      [] ht = "drawings" ->
           [scheme |-> "https://", host |-> <<"docs.google.com">>,
            rest |-> <<"/drawings/d/">> \o id \o <<"/export/", fmt>>]

\* C10: on a resource with a concrete hosting type, get_access_url returns a
\* URL fixed by (hosting_type, id, export_format) alone: the type's template
\* with the id and the requested format, 'pdf' when none (None or the empty
\* string) is given, and for 'file' the same URL for every export format.
C10_AccessUrlIsTemplateFilled ==
    (accessResult.kind # "none" /\ resHostingType \in HostingTypes) =>
        accessResult =
            [kind |-> "url",
             url |-> C10_Expected(resHostingType, resId,
                         IF accessCall.export_format \in {NoneStr, ""}
                         THEN "pdf" ELSE accessCall.export_format)]

\* A drawings resource asked for png, with a hosting_type argument it ignores.
C10_Witness ==
    /\ resHostingType = "drawings"
    /\ accessCall = [hosting_type |-> "file", export_format |-> "png"]
    /\ accessResult.kind = "url"

-----------------------------------------------------------------------------
(* Properties of from_share_url and of guessing, checked under SpecResource *)

\* The share URLs that neither pattern matches: the scheme http, no "/"
\* after the id, a hosting type or a subdomain that is not listed, a
\* character in the id that is no id character, no id, the empty string.
C11_Unrecognized ==
    { <<"http://", "drive", ".google.com/", "file", "/d/", "12345", "/">>,
      <<"https://", "drive", ".google.com/", "file", "/d/", "12345">>,
      <<"https://", "drive", ".google.com/", "folder", "/d/", "12345", "/">>,
      <<"https://", "mail", ".google.com/", "file", "/d/", "12345", "/">>,
      <<"https://", "docs", ".google.com/", "spreadsheets", "/d/", "abc", "!", "x",
        "/", "edit">>,
      <<"https://", "docs", ".google.com/", "open", "?id=">>,
      <<>> }

C12_Explicit ==
    { [url |-> <<"https://", "drive", ".google.com/", "file", "/d/", "12345", "/",
                 "view?usp=sharing">>,
       id |-> <<"12345">>, ht |-> "file"],
      [url |-> <<"https://", "docs", ".google.com/", "a/", "example.com", "/",
                 "document", "/d/", "abc", "-_", "/", "edit">>,
       id |-> <<"abc", "-_">>, ht |-> "document"],
      [url |-> <<"https://", "docs", ".google.com/", "presentation", "/d/", "12345",
                 "/", "edit">>,
       id |-> <<"12345">>, ht |-> "presentation"],
      [url |-> <<"https://", "docs", ".google.com/", "spreadsheets", "/d/", "abc",
                 "-_", "/">>,
       id |-> <<"abc", "-_">>, ht |-> "spreadsheets"],
      [url |-> <<"https://", "docs", ".google.com/", "drawings", "/d/", "12345", "/",
                 "edit">>,
       id |-> <<"12345">>, ht |-> "drawings"] }

\* C12: from_share_url of a share URL of the explicit shape returns a
\* resource whose id and hosting_type are the id and the category of the URL,
\* and it issues no probe.
C12_ExplicitShapeIsParsed ==
    \A e \in C12_Explicit :
        shareUrl = e.url =>
            /\ rpc = "constructed"
            /\ resId = e.id
            /\ resHostingType = e.ht
            /\ probeLog = <<>>
            /\ rError = "none"

\* The URL with a Google Apps domain and an id with - and _ was parsed.
C12_Witness ==
    /\ Len(shareUrl) = 12
    /\ shareUrl[4] = "a/"
    /\ rpc = "constructed"
    /\ resHostingType = "document"
    /\ resId = <<"abc", "-_">>

\* The share URLs of the legacy shape, with the id they name.
C13_Legacy ==
    { [url |-> <<"https://", "docs", ".google.com/", "open", "?id=", "12345">>,
       id |-> <<"12345">>],
      [url |-> <<"https://", "drive", ".google.com/", "open", "?id=", "abc", "-_",
                 "&", "usp=sharing">>,
       id |-> <<"abc", "-_">>],
      [url |-> <<"https://", "drive", ".google.com/", "open", "?id=", "abc", "!",
                 "12345">>,
       id |-> <<"abc">>] }

\* C13, as the claim states it: the resource from_share_url returns for a
\* legacy share URL has the sentinel 'open' as hosting type, and nothing was
\* probed to build it.
C13_LegacyStaysOpen ==
    \A e \in C13_Legacy :
        (shareUrl = e.url /\ rpc = "constructed") =>
            (resHostingType = OPEN_HOSTING_TYPE /\ probeLog = <<>>)

\* C13, amended: for a legacy share URL the pattern gives the id and the
\* sentinel 'open', which is what the constructor is called with; the
\* constructor guesses at once, so the resource from_share_url returns was
\* built with at least one probe and its hosting type is the guessed type, or
\* None when every probe failed, and never 'open'.
C13_LegacyIsGuessedAtOnce ==
    \A e \in C13_Legacy :
        shareUrl = e.url =>
            /\ ctorHostingType = OPEN_HOSTING_TYPE
            /\ resId = e.id
            /\ rpc \in {"guessing", "constructed", "raised"}
            /\ rpc = "constructed" =>
                   /\ probeLog # <<>>
                   /\ resHostingType \in HostingTypes \cup {NoneStr}
                   /\ resHostingType = NoneStr <=>
                          \A i \in DOMAIN probeLog : probeLog[i].status >= 400

\* A legacy share URL gave a drawings resource.
C13_Witness ==
    /\ shareUrl = <<"https://", "drive", ".google.com/", "open", "?id=", "abc", "!",
                    "12345">>
    /\ rpc = "constructed"
    /\ resHostingType = "drawings"
    /\ resId = <<"abc">>

\* C14: when no probe succeeds, every known category was probed exactly once,
\* no category is adopted (hosting_type is None), and get_access_url() fails
\* with an error (the KeyError of ACCESS_URLS[None]) instead of returning a URL.
C14_FailedGuess ==
    (/\ rpc = "constructed"
     /\ ctorHostingType = OPEN_HOSTING_TYPE
     /\ \A i \in DOMAIN probeLog : probeLog[i].status >= 400) =>
        /\ Len(probeLog) = 5
        /\ {probeLog[i].hosting_type : i \in DOMAIN probeLog} =
               {"file", "document", "presentation", "spreadsheets", "drawings"}
        /\ resHostingType = NoneStr
        /\ GetAccessUrl(resHostingType, resId, NoneStr, NoneStr).kind = "KeyError"
        /\ (accessResult.kind # "none" /\ accessCall.hosting_type = NoneStr) =>
               accessResult = [kind |-> "KeyError", url |-> None]

\* get_access_url(export_format='png') was called after a failed guess.
C14_Witness ==
    /\ rpc = "constructed"
    /\ Len(probeLog) = 5
    /\ resHostingType = NoneStr
    /\ accessCall = [hosting_type |-> NoneStr, export_format |-> "png"]
    /\ accessResult.kind = "KeyError"

\* C15: a category is adopted only when its probe was answered with a 2xx
\* status.
C15_OnlySuccessStatusAdopted ==
    (/\ rpc = "constructed"
     /\ ctorHostingType = OPEN_HOSTING_TYPE
     /\ resHostingType \in HostingTypes) =>
        /\ probeLog # <<>>
        /\ probeLog[Len(probeLog)].hosting_type = resHostingType
        /\ probeLog[Len(probeLog)].status \in 200..299

\* C16: every GET, the probes of guessing included, is sent with redirect
\* following disabled.
C16_RedirectsDisabled ==
    /\ lastReq.allow_redirects = FALSE
    /\ \A i \in DOMAIN probeLog : probeLog[i].allow_redirects = FALSE

\* C19: once a resource is constructed, no step changes its id or its
\* hosting type or issues a probe; the hosting type changes only while the
\* resource is built, and when guessing only once, from None, with the step
\* that ends the construction.
C19_ConstructedResourceIsFixed ==
    [][/\ rpc = "constructed" =>
              /\ rpc' = "constructed"
              /\ resId' = resId
              /\ resHostingType' = resHostingType
              /\ probeLog' = probeLog
       /\ resHostingType' # resHostingType =>
              /\ rpc \in {"none", "guessing"}
              /\ rpc = "guessing" =>
                     (resHostingType = NoneStr /\ rpc' = "constructed")]_vars

\* get_access_url(hosting_type='file') returned a URL on a resource whose
\* guess had failed, and the resource is still without hosting type.
C19_Witness ==
    /\ rpc = "constructed"
    /\ Len(probeLog) = 5
    /\ accessCall.hosting_type = "file"
    /\ accessResult.kind = "url"
    /\ resHostingType = NoneStr

-----------------------------------------------------------------------------
(* Properties of successive calls and of the order of the requests,        *)
(* checked under SpecResolve                                                *)

\* C18: nothing is kept from one call of resolve_from_access_url to the next:
\* a call starts with the hop counter 0, the URL it was given, and no result,
\* whatever the call before did; while a call runs its hop counter is the
\* number of its own requests, and its first request goes to the URL it was
\* given.
C18_EveryCallStartsAfresh ==
    /\ [](pc = "loop" => (redirection = nreq /\ outcome = "none" /\ result = None))
    /\ [][(pc # "loop" /\ pc' = "loop") =>
              /\ redirection' = 0
              /\ url' = givenUrl'
              /\ nreq' = 0
              /\ lastReq' = NoRequest
              /\ lastLocation' = None]_vars
    /\ [][(nreq = 0 /\ nreq' = 1) => lastReq'.url = givenUrl]_vars

\* A call that followed a call ended at the redirect limit issued requests
\* and returned a URL.
C18_Witness ==
    /\ prevExhausted
    /\ pc = "done"
    /\ outcome = "returned"
    /\ nreq = 2
    /\ result = lastLocation

\* C20: the first request of a call goes to the URL the call was given, and
\* every later request to the Location of the 302 that answered the request
\* before it; a step issues one request, and only while the call runs.
C20_RequestsFollowLocations ==
    [][/\ nreq' \in {nreq, nreq + 1, 0}
       /\ nreq' = nreq + 1 =>
              /\ pc = "loop"
              /\ lastReq'.url = IF nreq = 0 THEN givenUrl ELSE lastLocation
              /\ nreq > 0 => (lastResp.status = 302 /\ lastResp.location = lastLocation)
              /\ lastReq'.allow_redirects = FALSE]_vars

\* The third request of a call went to the Location of the second 302, which
\* is neither the given URL nor the Location of the first 302, and was
\* answered with 200.
C20_Witness ==
    /\ nreq = 3
    /\ lastResp.status = 200
    /\ lastReq.url = lastLocation
    /\ lastReq.url # givenUrl
    /\ outcome = "returned"

-----------------------------------------------------------------------------
(* Two concurrent resolve_from_access_url calls                             *)

InitConcurrent ==
    /\ InitWalk
    /\ InitResource
    /\ keyOrder = AccessUrlKeys
    /\ calls = [c \in Callers |-> IdleFrame]
    /\ sessions \in [Callers -> ConcSessions]

NextConcurrent ==
    \/ \E c \in Callers, u \in ConcUrls : ConcurrentCall(c, u)
    \/ \E c \in Callers : ConcurrentPass(c)

SpecConcurrent == InitConcurrent /\ [][NextConcurrent]_vars

\* a is the start of b.
C17_IsPrefix(a, b) == Len(a) <= Len(b) /\ SubSeq(b, 1, Len(a)) = a

\* C17: whatever the interleaving of two calls that each use their own
\* session, the requests a call has issued are the first requests of the same
\* call run alone on the same session, and a call that is over issued the
\* same requests and ended with the same outcome as the call run alone.
C17_NoInterference ==
    \A c \in Callers :
        calls[c].pc # "idle" =>
            LET alone == RunAlone(StartFrame(calls[c].given), sessions[c])
            IN  /\ C17_IsPrefix(calls[c].reqs, alone.reqs)
                /\ calls[c].pc = "done" =>
                       /\ calls[c].reqs = alone.reqs
                       /\ calls[c].outcome = alone.outcome
                       /\ calls[c].result = alone.result

\* Two calls whose requests were interleaved are over: one returned the URL
\* it was redirected to, the other was redirected to a sign-in page.
C17_Witness ==
    /\ calls[1].given = LoginUrl /\ calls[1].result = ExampleUrl
    /\ calls[2].given = ExampleUrl
    /\ calls[1].overlapped /\ calls[2].overlapped
    /\ calls[1].outcome = "returned" /\ Len(calls[1].reqs) = 2
    /\ calls[2].outcome = "NotPublicResourceException" /\ Len(calls[2].reqs) = 2

-----------------------------------------------------------------------------
(* The outcomes of resolve_from_access_url, checked under SpecResolve       *)

\* C21: whatever the responses and the URLs (a Location without hostname
\* included), a resolve_from_access_url call ends after at most
\* REDIRECT_LIMIT + 1 requests, and it ends with a returned URL, with
\* NotPublicResourceException or with ResourceNotFoundException, never with
\* another fault.
C21_EndsInThreeOutcomes ==
    /\ nreq <= REDIRECT_LIMIT + 1
    /\ pc = "done" =>
           \/ outcome = "returned" /\ result # None
           \/ outcome \in {NotPublic, NotFound} /\ result = None

-----------------------------------------------------------------------------
(* The hosting_type argument of get_access_url, checked under SpecResource  *)

\* C22: get_access_url(hosting_type=X) on a resource with a hosting type
\* builds the URL from the resource's type and ignores X; X is used only
\* while the resource has none: by the probes of guessing, each of which
\* goes to the access URL of the probed type, and after a failed guess,
\* where X decides the URL (a KeyError when X is no hosting type either).
C22_ArgumentOnlyWhenUnset ==
    /\ \A i \in DOMAIN probeLog :
           probeLog[i].url = C10_Expected(probeLog[i].hosting_type, resId, "pdf")
    /\ accessResult.kind # "none" =>
           LET fmt == IF accessCall.export_format \in {NoneStr, ""}
                      THEN "pdf" ELSE accessCall.export_format
               used == IF resHostingType \in HostingTypes
                       THEN resHostingType ELSE accessCall.hosting_type
           IN  /\ resHostingType \in HostingTypes \cup {NoneStr}
               /\ IF used \in HostingTypes
                  THEN accessResult =
                           [kind |-> "url", url |-> C10_Expected(used, resId, fmt)]
                  ELSE accessResult = [kind |-> "KeyError", url |-> None]

\* A resource whose type document was guessed, by probes that named the
\* type to get_access_url, was asked for the access URL of spreadsheets and
\* gave the one of document.
C22_Witness ==
    /\ rpc = "constructed"
    /\ Len(probeLog) >= 2
    /\ resHostingType = "document"
    /\ accessCall = [hosting_type |-> "spreadsheets", export_format |-> NoneStr]
    /\ accessResult = [kind |-> "url", url |-> C10_Expected("document", resId, "pdf")]
====
